---- MODULE Spec2Model ----
(***************************************************************************)
(* Model of src/video_to_webp_with_size_restriction.py: the frame sampler  *)
(* (select_frames, _select_indices), the bounded search (_binary_search)   *)
(* and the stage orchestrator (VideoToWebPConverter.convert) with its      *)
(* wrapper convert_video_to_webp.                                          *)
(*                                                                         *)
(* A frame is named by its 0-based position in the decoded stream; a frame *)
(* list is a sequence of such positions.  Python's list index i is index   *)
(* i + 1 of the TLA+ sequence.  The encoder (webp.save_images) is a black  *)
(* box: every call either raises or yields a buffer of some size.  The     *)
(* frame rate of every trial is len(frames) / original_duration, so it is  *)
(* determined by the frame list and is not a separate input.               *)
(***************************************************************************)
EXTENDS Integers, Sequences, FiniteSets, TLC

(***************************************************************************)
(* Bounds of the model.                                                    *)
(***************************************************************************)
\* decoded streams have 0..MaxTotalFrames frames, or a length around the cap
MaxTotalFrames == 7
\* requested qualities are 1..MaxQuality, or one of the large ones below
MaxQuality == 6
\* the trial log stops growing at this length (a search that never ends)
MaxTrials == 26
\* standalone search: values 0..MaxVal, sizes 0..MaxSize
MaxVal == 5
MaxSize == 3
\* standalone sampler: sequences of at most MaxSelLen frames
MaxSelLen == 6

(***************************************************************************)
(* Program constants.                                                      *)
(***************************************************************************)
MAX_FRAMES_CAP == 30
SIZE_CAP_KB == 490
SIZE_TARGET_RANGE == <<(SIZE_CAP_KB - 100) * 1024, SIZE_CAP_KB * 1024>>
DefaultQuality == 80
\* None (best_value = None, return None, None): no search value or size is -1
None == -1
\* float('inf'): larger than every size the model draws
Inf == 1000000000

NoBuffer == [ok |-> FALSE, frames |-> <<>>, quality |-> 0, size |-> 0]
\* no earlier call to compare with
NoRun == [trials |-> <<>>, stage |-> "none", held |-> NoBuffer]

VARIABLES
    pc,                 \* position in convert / the standalone runs
    quality,            \* self.quality
    final_frames,       \* convert's final_frames
    final_quality,      \* convert's final_quality
    successful_buffer,  \* convert's successful_buffer (NoBuffer for None)
    current_size,       \* convert's current_size
    target_range,       \* _binary_search's target_range
    frames_arg,         \* _binary_search's frames
    low, high,          \* _binary_search's low, high
    best_value,         \* _binary_search's best_value
    best_size,          \* _binary_search's best_size
    sp,                 \* position in _binary_search: idle, loop, returned
    ret_value, ret_size,\* the pair _binary_search returned
    webp_file,          \* the buffer written to webp_path (NoBuffer: none)
    outcome,            \* how convert ended: pending, True, or the exception
    api_result,         \* what convert_video_to_webp returned
    trials,             \* log of the encode trials, in order
    calls,              \* number of encoder calls so far, modulo 2
    stage,              \* the last stage convert entered
    CAP_FRAMES_SiZE,    \* convert's CAP_FRAMES_SiZE
    FRAME_PIVOT,        \* convert's FRAME_PIVOT
    total_frames,       \* _extract_frames_from_video's total_frames
    decoded,            \* _extract_frames_from_video's frames
    evalf,              \* standalone search: the evaluate function
    space,              \* standalone search: the search_space passed
    evals,              \* standalone search: the values evaluated, in order
    sel_seq, sel_count, \* standalone sampler: the inputs
    sel_out,            \* standalone sampler: the result
    deterministic,      \* the encoder's output is a function of its input
    enc,                \* what the encoder has produced so far, per input
    run,                \* which call of convert_video_to_webp this is
    first               \* what the first call did (once a second one runs)

vars == <<pc, quality, final_frames, final_quality, successful_buffer,
          current_size, target_range, frames_arg, low, high, best_value,
          best_size, sp, ret_value, ret_size, webp_file, outcome, api_result,
          trials, calls, stage, CAP_FRAMES_SiZE, FRAME_PIVOT, total_frames,
          decoded, evalf, space, evals, sel_seq, sel_count, sel_out,
          deterministic, enc, run, first>>

searchVars == <<target_range, frames_arg, low, high, best_value, best_size,
                sp, ret_value, ret_size>>
convertVars == <<quality, final_frames, final_quality, successful_buffer,
                 current_size, webp_file, outcome, api_result, trials, calls,
                 stage, CAP_FRAMES_SiZE, FRAME_PIVOT, total_frames, decoded,
                 deterministic, enc, run, first>>
runVars == <<deterministic, run, first>>
aloneVars == <<evalf, space, evals>>
selVars == <<sel_seq, sel_count, sel_out>>

(***************************************************************************)
(* Frame sampler.                                                          *)
(***************************************************************************)
\* range(n) as a sequence: 0, 1, ..., n - 1
Range(n) == [i \in 1..n |-> i - 1]

\* an even spacing by total / count, which never reaches the last frame
EvenIndicesShort(total, count) ==
    [k \in 1..count |-> ((k - 1) * total) \div count]

\* a spacing with the ratio upside down, which repeats indices
EvenIndicesInverted(total, count) ==
    [k \in 1..count |-> ((k - 1) * (count - 1)) \div (total - 1)]

\* int(i * (total - 1) / (count - 1)) for i in range(count)
EvenIndices(total, count) ==
    [k \in 1..count |-> ((k - 1) * (total - 1)) \div (count - 1)]

_select_indices(total, count) ==
    IF count <= 0 \/ total <= 0 THEN <<>>
    ELSE IF count = 1 THEN <<0>>
    ELSE IF count >= total THEN Range(total)
    ELSE EvenIndices(total, count)

\* a sampler whose single pick is the middle frame
select_frames_middle(source_frames, count) ==
    IF count <= 0 THEN <<>>
    ELSE IF count = 1 THEN <<source_frames[(Len(source_frames) + 1) \div 2]>>
    ELSE IF count >= Len(source_frames) THEN source_frames
    ELSE [k \in 1..count |->
            source_frames[EvenIndices(Len(source_frames), count)[k] + 1]]

select_frames(source_frames, count) ==
    IF count <= 0 THEN <<>>
    ELSE IF count = 1 THEN <<source_frames[1]>>
    ELSE IF count >= Len(source_frames) THEN source_frames
    ELSE [k \in 1..count |->
            source_frames[EvenIndices(Len(source_frames), count)[k] + 1]]

(***************************************************************************)
(* Bounded search: _binary_search.                                         *)
(***************************************************************************)
\* mid = (low + high) // 2; if mid == 0: mid = 1
\* a midpoint that is not clamped to 1
MidUnclamped(lo, hi) == (lo + hi) \div 2

Mid(lo, hi) == IF (lo + hi) \div 2 = 0 THEN 1 ELSE (lo + hi) \div 2

\* a window test that forgets the cap
InWindowNoCap(size, tr) == tr[1] <= size

\* a search that never stops at a size in the window
InWindowNever(size, tr) == FALSE

\* target_range[0] <= current_size <= target_range[1]
InWindow(size, tr) == tr[1] <= size /\ size <= tr[2]

\* elif current_size < target_range[0]
UnderWindow(size, tr) == size < tr[1]

\* an over-shoot that steps one value too far
HighAfterOverSkips(mid) == mid - 2

\* the new high of the else branch: high = mid - 1
HighAfterOver(mid) == mid - 1

\* the new low of the elif branch: low = mid + 1
\* a lower bound that skips the value above mid
LowAfterUnderSkips(mid) == mid + 2

LowAfterUnder(mid) == mid + 1

\* the return after the loop
\* a loop exit that forgets the recorded under-shoot
ResultAfterLoopNone(bv, bs, tr) == <<None, None>>

ResultAfterLoop(bv, bs, tr) ==
    IF bv # None /\ bs <= tr[2] THEN <<bv, bs>> ELSE <<None, None>>

\* the call: the locals are set and an empty space returns at once
BinarySearchCall(frames, tr, lo, hi) ==
    /\ frames_arg' = frames
    /\ target_range' = tr
    /\ low' = lo
    /\ high' = hi
    /\ best_value' = None
    /\ best_size' = Inf
    /\ IF lo > hi
       THEN sp' = "returned" /\ ret_value' = None /\ ret_size' = None
       ELSE sp' = "loop" /\ UNCHANGED <<ret_value, ret_size>>

\* one iteration of the while loop, given what evaluator_func(frames, mid)
\* returned
BinarySearchIter(size) ==
    LET mid == Mid(low, high) IN
    /\ UNCHANGED <<frames_arg, target_range>>
    /\ IF InWindow(size, target_range)
       THEN /\ sp' = "returned"
            /\ ret_value' = mid
            /\ ret_size' = size
            /\ UNCHANGED <<low, high, best_value, best_size>>
       ELSE IF UnderWindow(size, target_range)
       THEN /\ best_value' = mid
            /\ best_size' = size
            /\ low' = LowAfterUnder(mid)
            /\ UNCHANGED <<high, sp, ret_value, ret_size>>
       ELSE /\ high' = HighAfterOver(mid)
            /\ UNCHANGED <<low, best_value, best_size, sp, ret_value, ret_size>>

\* the loop condition fails: return what was recorded
SearchExit ==
    /\ sp = "loop"
    /\ low > high
    /\ sp' = "returned"
    /\ ret_value' = ResultAfterLoop(best_value, best_size, target_range)[1]
    /\ ret_size' = ResultAfterLoop(best_value, best_size, target_range)[2]
    /\ UNCHANGED <<frames_arg, target_range, low, high, best_value, best_size>>
    /\ UNCHANGED <<pc, convertVars, aloneVars, selVars>>

(***************************************************************************)
(* What is not in use in a specification keeps these values.               *)
(***************************************************************************)
SearchIdle ==
    /\ target_range = SIZE_TARGET_RANGE
    /\ frames_arg = <<>>
    /\ low = 0
    /\ high = 0
    /\ best_value = None
    /\ best_size = Inf
    /\ sp = "idle"
    /\ ret_value = None
    /\ ret_size = None

ConvertIdle ==
    /\ quality = DefaultQuality
    /\ final_frames = <<>>
    /\ final_quality = DefaultQuality
    /\ successful_buffer = NoBuffer
    /\ current_size = 0
    /\ webp_file = NoBuffer
    /\ outcome = "pending"
    /\ api_result = "pending"
    /\ trials = <<>>
    /\ calls = 0
    /\ stage = "none"
    /\ CAP_FRAMES_SiZE = 0
    /\ FRAME_PIVOT = 0
    /\ total_frames = None
    /\ decoded = <<>>
    /\ deterministic = FALSE
    /\ enc = {}
    /\ run = 1
    /\ first = NoRun

AloneIdle ==
    /\ evalf = <<>>
    /\ space = <<0, 0>>
    /\ evals = <<>>

SelIdle ==
    /\ sel_seq = <<>>
    /\ sel_count = 0
    /\ sel_out = <<>>

(***************************************************************************)
(* The search alone: any target range, any search space, any evaluate.     *)
(***************************************************************************)
Sizes == 0..MaxSize
\* evaluate is called on mid only: low <= mid <= high, but for mid = 1 in
\* place of 0
EvalDomain(lo, hi) == (IF lo < 1 THEN 1 ELSE lo)..(IF hi < 1 THEN 1 ELSE hi)
\* the log of evaluated values stops growing beyond the size of any space
LogEval(v) == IF Len(evals) <= MaxVal + 1 THEN Append(evals, v) ELSE evals
TargetRanges == {tr \in (0..MaxSize) \X (0..MaxSize) : tr[1] < tr[2]}
SearchSpaces == (0..MaxVal) \X (0..MaxVal)

InitSearch ==
    /\ pc = "search"
    /\ target_range \in TargetRanges
    /\ space \in SearchSpaces
    /\ evalf \in [EvalDomain(space[1], space[2]) -> Sizes]
    /\ evals = <<>>
    /\ frames_arg = <<>>
    /\ low = 0
    /\ high = 0
    /\ best_value = None
    /\ best_size = Inf
    /\ sp = "idle"
    /\ ret_value = None
    /\ ret_size = None
    /\ ConvertIdle
    /\ SelIdle

AloneCall ==
    /\ pc = "search"
    /\ sp = "idle"
    /\ BinarySearchCall(<<>>, target_range, space[1], space[2])
    /\ UNCHANGED <<pc, convertVars, aloneVars, selVars>>

AloneStep ==
    /\ pc = "search"
    /\ sp = "loop"
    /\ low <= high
    /\ BinarySearchIter(evalf[Mid(low, high)])
    /\ evals' = LogEval(Mid(low, high))
    /\ UNCHANGED <<pc, convertVars, evalf, space, selVars>>

NextSearch == AloneCall \/ AloneStep \/ SearchExit

SearchSpec == InitSearch /\ [][NextSearch]_vars

(***************************************************************************)
(* The sampler alone: any frame list, any count.                           *)
(***************************************************************************)
\* the frames kept by the decode loop: those whose position is in
\* set(_select_indices(total_frames, count)), in stream order (the stream
\* holds the total_frames frames its metadata announces)
ExtractedFrames(total, count) ==
    LET idx == {_select_indices(total, count)[k] :
                    k \in 1..Len(_select_indices(total, count))}
        pos == {i \in 0..(total - 1) : i \in idx}
        rank(i) == Cardinality({j \in pos : j <= i})
    IN  [k \in 1..Cardinality(pos) |-> CHOOSE i \in pos : rank(i) = k]

RECURSIVE SeqsUpTo(_, _)
SeqsUpTo(S, n) ==
    IF n = 0 THEN {<<>>}
    ELSE SeqsUpTo(S, n - 1) \cup [1..n -> S]

InitSelect ==
    /\ pc = "select"
    /\ sel_seq \in SeqsUpTo(0..1, MaxSelLen)
    /\ sel_count \in (-1)..(MaxSelLen + 1)
    /\ sel_out = <<>>
    /\ SearchIdle
    /\ ConvertIdle
    /\ AloneIdle

ApplySelectFrames ==
    /\ pc = "select"
    /\ sel_count >= 1 => Len(sel_seq) >= 1
    /\ sel_out' = select_frames(sel_seq, sel_count)
    /\ pc' = "select_frames"
    /\ UNCHANGED <<searchVars, convertVars, aloneVars, sel_seq, sel_count>>

ApplySelectIndices ==
    /\ pc = "select"
    /\ sel_out' = _select_indices(Len(sel_seq), sel_count)
    /\ pc' = "_select_indices"
    /\ UNCHANGED <<searchVars, convertVars, aloneVars, sel_seq, sel_count>>

\* the decode loop of _extract_frames_from_video on a stream of
\* len(sel_seq) frames with count = sel_count
ApplyExtractFrames ==
    /\ pc = "select"
    /\ sel_out' = ExtractedFrames(Len(sel_seq), sel_count)
    /\ pc' = "_extract_frames_from_video"
    /\ UNCHANGED <<searchVars, convertVars, aloneVars, sel_seq, sel_count>>

NextSelect == ApplySelectFrames \/ ApplySelectIndices \/ ApplyExtractFrames

SelectSpec == InitSelect /\ [][NextSelect]_vars

(***************************************************************************)
(* Stage orchestrator: VideoToWebPConverter.convert.                       *)
(***************************************************************************)
TotalFrameSamples ==
    (0..MaxTotalFrames) \cup {MAX_FRAMES_CAP, MAX_FRAMES_CAP + 1}
QualitySamples == (1..MaxQuality) \cup {DefaultQuality, 100}
\* the sizes an encode can have: below, at both ends of, and above the window
SizeSamples ==
    {SIZE_TARGET_RANGE[1] - 1, SIZE_TARGET_RANGE[1],
     SIZE_TARGET_RANGE[2], SIZE_TARGET_RANGE[2] + 1}

SearchStages == {"B", "C", "D", "E"}

\* _create_webp_buffer when webp.save_images does not raise: None without
\* frames, else the buffer (of the size the encoder gave it)
_create_webp_buffer(frames, q, size) ==
    IF frames = <<>> THEN NoBuffer
    ELSE [ok |-> TRUE, frames |-> frames, quality |-> q, size |-> size]

\* buffer.getbuffer().nbytes if buffer else float('inf')
SizeOf(buffer) == IF buffer.ok THEN buffer.size ELSE Inf

\* Stage A keeps its buffer: current_size <= SIZE_TARGET_RANGE[1]
StageAAccepts(size) == size <= SIZE_TARGET_RANGE[2]

\* a test of the search result that never finds one
TruthyNever(v) == FALSE

\* if best_f: / if best_q:
Truthy(v) == v # None /\ v # 0

\* int(self.quality / 2)
HalfQuality(q) == q \div 2

\* the frames a trial of a search stage encodes at value v
\* (size_4_this_frames selects, size_4_this_quality takes the list as is)
FramesToTest(st, frames, v) ==
    IF st \in {"B", "D"} THEN select_frames(frames, v) ELSE frames

\* the quality a trial of a search stage encodes at value v
QualityToTest(st, v) ==
    IF st \in {"B", "D"} THEN final_quality ELSE v

Trial(st, frames, q, ok, size) ==
    [stage |-> st, frames |-> frames, quality |-> q, ok |-> ok,
     size |-> size]

\* the outcomes webp.save_images can have on these frames at this quality:
\* any sample, or what it produced before when it is a function of both
Produced(frames, q) == {e \in enc : e.frames = frames /\ e.quality = q}
EncoderSizesAny(frames, q) == SizeSamples
EncoderSizes(frames, q) ==
    IF deterministic /\ Produced(frames, q) # {}
    THEN {e.size : e \in {d \in Produced(frames, q) : d.ok}}
    ELSE SizeSamples
EncoderMayRaise(frames, q) ==
    ~deterministic \/ \A e \in Produced(frames, q) : ~e.ok
Encoded(frames, q, ok, size) ==
    IF deterministic /\ frames # <<>>
    THEN enc \cup {[frames |-> frames, quality |-> q, ok |-> ok,
                    size |-> size]}
    ELSE enc

LogTrial(t) == IF Len(trials) < MaxTrials THEN Append(trials, t) ELSE trials

Init ==
    /\ pc = "start"
    /\ quality \in QualitySamples
    /\ final_frames = <<>>
    /\ final_quality = quality
    /\ successful_buffer = NoBuffer
    /\ current_size = 0
    /\ webp_file = NoBuffer
    /\ outcome = "pending"
    /\ api_result = "pending"
    /\ trials = <<>>
    /\ calls = 0
    /\ stage = "none"
    /\ CAP_FRAMES_SiZE = 0
    /\ FRAME_PIVOT = 0
    /\ total_frames = None
    /\ decoded = <<>>
    /\ deterministic = FALSE
    /\ enc = {}
    /\ run = 1
    /\ first = NoRun
    /\ SearchIdle
    /\ AloneIdle
    /\ SelIdle

\* os.path.exists(video_path) is false
FileMissing ==
    /\ pc = "start"
    /\ pc' = "raised"
    /\ outcome' = "FileNotFoundError"
    /\ UNCHANGED <<quality, final_frames, final_quality, successful_buffer,
                   current_size, webp_file, api_result, trials, calls,
                   stage, CAP_FRAMES_SiZE, FRAME_PIVOT,
                   decoded, total_frames>>
    /\ UNCHANGED <<searchVars, aloneVars, selVars>>
    /\ UNCHANGED <<runVars, enc>>

\* the container cannot be opened or decoded
DecodeRaises ==
    /\ pc = "start"
    /\ pc' = "raised"
    /\ outcome' = "ValueError"
    /\ UNCHANGED <<quality, final_frames, final_quality, successful_buffer,
                   current_size, webp_file, api_result, trials, calls,
                   stage, CAP_FRAMES_SiZE, FRAME_PIVOT,
                   decoded, total_frames>>
    /\ UNCHANGED <<searchVars, aloneVars, selVars>>
    /\ UNCHANGED <<runVars, enc>>

\* an extraction that lets an empty frame list through
EmptyInputIgnored(frames) == FALSE

\* if not frames: raise (in _extract_frames_from_video and again in convert)
EmptyInput(frames) == frames = <<>>

\* _extract_frames_from_video decodes the stream, then convert's locals
Extract ==
    /\ pc = "start"
    /\ \E total \in TotalFrameSamples :
          LET frames == ExtractedFrames(total, MAX_FRAMES_CAP) IN
          /\ total_frames' = total
          /\ decoded' = frames
          /\ IF EmptyInput(frames)
             THEN /\ pc' = "raised"
                  /\ outcome' = "ValueError"
                  /\ UNCHANGED <<final_frames, CAP_FRAMES_SiZE, FRAME_PIVOT,
                                 stage>>
             ELSE /\ pc' = "A"
                  /\ stage' = "A"
                  /\ final_frames' = frames
                  /\ CAP_FRAMES_SiZE' = Len(frames)
                  /\ FRAME_PIVOT' = Len(frames) \div 2
                  /\ UNCHANGED outcome
    /\ final_quality' = quality
    /\ successful_buffer' = NoBuffer
    /\ UNCHANGED <<quality, current_size, webp_file, api_result, trials,
                   calls>>
    /\ UNCHANGED <<searchVars, aloneVars, selVars>>
    /\ UNCHANGED <<runVars, enc>>

\* Stage A: one trial with all frames at the requested quality
StageA ==
    /\ pc = "A"
    /\ \E size \in EncoderSizes(final_frames, final_quality) :
          LET buffer == _create_webp_buffer(final_frames, final_quality, size)
          IN
          /\ enc' = Encoded(final_frames, final_quality, TRUE, size)
          /\ current_size' = SizeOf(buffer)
          /\ trials' = LogTrial(Trial("A", final_frames, final_quality,
                                      buffer.ok, SizeOf(buffer)))
          /\ IF StageAAccepts(SizeOf(buffer))
             THEN /\ successful_buffer' = buffer
                  /\ pc' = "save"
                  /\ UNCHANGED <<searchVars, stage>>
             ELSE /\ pc' = "B"
                  /\ stage' = "B"
                  /\ BinarySearchCall(final_frames, SIZE_TARGET_RANGE,
                                      FRAME_PIVOT, CAP_FRAMES_SiZE)
                  /\ UNCHANGED successful_buffer
    /\ calls' = 1 - calls
    /\ UNCHANGED <<quality, final_frames, final_quality, webp_file, outcome,
                   api_result, CAP_FRAMES_SiZE, FRAME_PIVOT,
                   decoded, total_frames>>
    /\ UNCHANGED <<aloneVars, selVars>>
    /\ UNCHANGED runVars

\* a hold that keeps only the buffers under the cap
HeldIfUnderCap(buffer, held) ==
    IF buffer.ok /\ buffer.size <= SIZE_TARGET_RANGE[2] THEN buffer ELSE held

\* if buffer: successful_buffer = buffer
HeldAfterTrial(buffer, held) == IF buffer.ok THEN buffer ELSE held

\* one iteration of a stage's search: size_4_this_frames (B, D) or
\* size_4_this_quality (C, E) encodes at mid, holds the buffer it gets and
\* returns its size
SearchTrial ==
    /\ pc \in SearchStages
    /\ sp = "loop"
    /\ low <= high
    /\ \E size \in EncoderSizes(FramesToTest(pc, frames_arg, Mid(low, high)),
                              QualityToTest(pc, Mid(low, high))) :
          LET mid == Mid(low, high)
              frames_to_test == FramesToTest(pc, frames_arg, mid)
              buffer == _create_webp_buffer(frames_to_test,
                                            QualityToTest(pc, mid), size)
          IN
          /\ enc' = Encoded(frames_to_test, QualityToTest(pc, mid), TRUE, size)
          /\ successful_buffer' = HeldAfterTrial(buffer, successful_buffer)
          /\ calls' = IF buffer.ok THEN 1 - calls ELSE calls
          /\ trials' = LogTrial(Trial(pc, frames_to_test,
                                      QualityToTest(pc, mid), buffer.ok,
                                      SizeOf(buffer)))
          /\ BinarySearchIter(SizeOf(buffer))
    /\ UNCHANGED <<pc, quality, final_frames, final_quality, current_size,
                   webp_file, outcome, api_result, stage, CAP_FRAMES_SiZE,
                   FRAME_PIVOT,
                   decoded, total_frames>>
    /\ UNCHANGED <<aloneVars, selVars>>
    /\ UNCHANGED runVars

\* webp.save_images (or the temporary file) raises inside a trial: nothing
\* in convert catches it, so it leaves convert
EncodeRaises ==
    /\ \/ /\ pc \in {"A", "fallback"}
          /\ final_frames # <<>>
          /\ EncoderMayRaise(final_frames,
                             IF pc = "A" THEN final_quality ELSE 1)
          /\ enc' = Encoded(final_frames,
                            IF pc = "A" THEN final_quality ELSE 1, FALSE, Inf)
          /\ trials' = LogTrial(Trial(pc, final_frames,
                                      IF pc = "A" THEN final_quality ELSE 1,
                                      FALSE, Inf))
       \/ /\ pc \in SearchStages
          /\ sp = "loop"
          /\ low <= high
          /\ FramesToTest(pc, frames_arg, Mid(low, high)) # <<>>
          /\ EncoderMayRaise(FramesToTest(pc, frames_arg, Mid(low, high)),
                             QualityToTest(pc, Mid(low, high)))
          /\ enc' = Encoded(FramesToTest(pc, frames_arg, Mid(low, high)),
                            QualityToTest(pc, Mid(low, high)), FALSE, Inf)
          /\ trials' = LogTrial(Trial(pc,
                                      FramesToTest(pc, frames_arg,
                                                   Mid(low, high)),
                                      QualityToTest(pc, Mid(low, high)),
                                      FALSE, Inf))
    /\ pc' = "raised"
    /\ outcome' = "EncodeError"
    /\ calls' = 1 - calls
    /\ UNCHANGED <<quality, final_frames, final_quality, successful_buffer,
                   current_size, webp_file, api_result, stage,
                   CAP_FRAMES_SiZE, FRAME_PIVOT,
                   decoded, total_frames>>
    /\ UNCHANGED <<searchVars, aloneVars, selVars>>
    /\ UNCHANGED runVars

\* after Stage B's search: done, or Stage C on FRAME_PIVOT frames
StageBEnd ==
    /\ pc = "B"
    /\ sp = "returned"
    /\ IF Truthy(ret_value)
       THEN /\ pc' = "save"
            /\ UNCHANGED <<final_frames, searchVars, stage>>
       ELSE /\ pc' = "C"
            /\ stage' = "C"
            /\ final_frames' = select_frames(final_frames, FRAME_PIVOT)
            /\ BinarySearchCall(select_frames(final_frames, FRAME_PIVOT),
                                SIZE_TARGET_RANGE, HalfQuality(quality),
                                quality)
    /\ UNCHANGED <<quality, final_quality, successful_buffer, current_size,
                   webp_file, outcome, api_result, trials, calls,
                   CAP_FRAMES_SiZE, FRAME_PIVOT,
                   decoded, total_frames>>
    /\ UNCHANGED <<aloneVars, selVars>>
    /\ UNCHANGED <<runVars, enc>>

\* after Stage C's search: done, or Stage D at half the quality
StageCEnd ==
    /\ pc = "C"
    /\ sp = "returned"
    /\ IF Truthy(ret_value)
       THEN /\ pc' = "save"
            /\ UNCHANGED <<final_quality, searchVars, stage>>
       ELSE /\ pc' = "D"
            /\ stage' = "D"
            /\ final_quality' = HalfQuality(quality)
            /\ BinarySearchCall(final_frames, SIZE_TARGET_RANGE, 1,
                                FRAME_PIVOT)
    /\ UNCHANGED <<quality, final_frames, successful_buffer, current_size,
                   webp_file, outcome, api_result, trials, calls,
                   CAP_FRAMES_SiZE, FRAME_PIVOT,
                   decoded, total_frames>>
    /\ UNCHANGED <<aloneVars, selVars>>
    /\ UNCHANGED <<runVars, enc>>

\* after Stage D's search: done, or Stage E on one frame
StageDEnd ==
    /\ pc = "D"
    /\ sp = "returned"
    /\ IF Truthy(ret_value)
       THEN /\ pc' = "save"
            /\ UNCHANGED <<final_frames, searchVars, stage>>
       ELSE /\ pc' = "E"
            /\ stage' = "E"
            /\ final_frames' = select_frames(final_frames, 1)
            /\ BinarySearchCall(select_frames(final_frames, 1),
                                SIZE_TARGET_RANGE, 1, HalfQuality(quality))
    /\ UNCHANGED <<quality, final_quality, successful_buffer, current_size,
                   webp_file, outcome, api_result, trials, calls,
                   CAP_FRAMES_SiZE, FRAME_PIVOT,
                   decoded, total_frames>>
    /\ UNCHANGED <<aloneVars, selVars>>
    /\ UNCHANGED <<runVars, enc>>

\* after Stage E's search: done, or the last resort
StageEEnd ==
    /\ pc = "E"
    /\ sp = "returned"
    /\ pc' = IF Truthy(ret_value) THEN "save" ELSE "fallback"
    /\ stage' = IF Truthy(ret_value) THEN stage ELSE "fallback"
    /\ UNCHANGED <<quality, final_frames, final_quality, successful_buffer,
                   current_size, webp_file, outcome, api_result, trials,
                   calls, CAP_FRAMES_SiZE, FRAME_PIVOT,
                   decoded, total_frames>>
    /\ UNCHANGED <<searchVars, aloneVars, selVars>>
    /\ UNCHANGED <<runVars, enc>>

\* a last resort that is held only under the cap
FallbackHeldIfUnderCap(buffer) ==
    IF buffer.size <= SIZE_TARGET_RANGE[2] THEN buffer ELSE NoBuffer

\* successful_buffer = self._create_webp_buffer(...): no test of the size
FallbackHeld(buffer) == buffer

\* the last resort: quality 1 on final_frames, held whatever its size
Fallback ==
    /\ pc = "fallback"
    /\ \E size \in EncoderSizes(final_frames, 1) :
          LET buffer == _create_webp_buffer(final_frames, 1, size) IN
          /\ enc' = Encoded(final_frames, 1, TRUE, size)
          /\ successful_buffer' = FallbackHeld(buffer)
          /\ current_size' = SizeOf(FallbackHeld(buffer))
          /\ trials' = LogTrial(Trial("fallback", final_frames, 1, buffer.ok,
                                      SizeOf(buffer)))
    /\ final_quality' = 1
    /\ pc' = "save"
    /\ calls' = 1 - calls
    /\ UNCHANGED <<quality, final_frames, webp_file, outcome, api_result,
                   stage, CAP_FRAMES_SiZE, FRAME_PIVOT,
                   decoded, total_frames>>
    /\ UNCHANGED <<searchVars, aloneVars, selVars>>
    /\ UNCHANGED runVars

\* the final save: the held buffer is written, unless there is none or the
\* write raises; either error leaves convert as an IOError
Save ==
    /\ pc = "save"
    /\ \E write_ok \in BOOLEAN :
          IF successful_buffer.ok /\ write_ok
          THEN /\ webp_file' = successful_buffer
               /\ outcome' = "True"
               /\ pc' = "returned"
          ELSE /\ outcome' = IF successful_buffer.ok
                              THEN "IOError: write"
                              ELSE "IOError: no buffer"
               /\ pc' = "raised"
               /\ UNCHANGED webp_file
    /\ UNCHANGED <<quality, final_frames, final_quality, successful_buffer,
                   current_size, api_result, trials, calls, stage,
                   CAP_FRAMES_SiZE, FRAME_PIVOT,
                   decoded, total_frames>>
    /\ UNCHANGED <<searchVars, aloneVars, selVars>>
    /\ UNCHANGED <<runVars, enc>>

\* a wrapper that lets convert's exception through to its caller
ApiResultReraises(o) == o

\* return converter.convert(...) / except Exception: return False
ApiResult(o) == IF o = "True" THEN "True" ELSE "False"

\* convert_video_to_webp: convert's result, or False for any exception
ConvertVideoToWebp ==
    /\ pc \in {"returned", "raised"}
    /\ api_result' = ApiResult(outcome)
    /\ pc' = "exit"
    /\ UNCHANGED <<quality, final_frames, final_quality, successful_buffer,
                   current_size, webp_file, outcome, trials, calls, stage,
                   CAP_FRAMES_SiZE, FRAME_PIVOT,
                   decoded, total_frames>>
    /\ UNCHANGED <<searchVars, aloneVars, selVars>>
    /\ UNCHANGED <<runVars, enc>>

Next ==
    \/ FileMissing
    \/ DecodeRaises
    \/ Extract
    \/ StageA
    \/ SearchTrial
    \/ SearchExit
    \/ EncodeRaises
    \/ StageBEnd
    \/ StageCEnd
    \/ StageDEnd
    \/ StageEEnd
    \/ Fallback
    \/ Save
    \/ ConvertVideoToWebp

Spec == Init /\ [][Next]_vars

\* convert is one sequential call: it takes its next step whenever it has one
FairSpec == Spec /\ WF_vars(Next)

(***************************************************************************)
(* Two calls on the same video with an encoder that is a function of the   *)
(* frames and the quality it is given (TwiceSpec).                         *)
(***************************************************************************)
InitTwice ==
    /\ pc = "start"
    /\ quality \in QualitySamples
    /\ final_quality = quality
    /\ final_frames = <<>>
    /\ successful_buffer = NoBuffer
    /\ current_size = 0
    /\ webp_file = NoBuffer
    /\ outcome = "pending"
    /\ api_result = "pending"
    /\ trials = <<>>
    /\ calls = 0
    /\ stage = "none"
    /\ CAP_FRAMES_SiZE = 0
    /\ FRAME_PIVOT = 0
    /\ total_frames = None
    /\ decoded = <<>>
    /\ deterministic = TRUE
    /\ enc = {}
    /\ run = 1
    /\ first = NoRun
    /\ SearchIdle
    /\ AloneIdle
    /\ SelIdle

\* a second convert_video_to_webp on the same video with a converter of the
\* same quality: the stream decodes to the same frames, and convert's locals
\* start afresh
ConvertAgain ==
    /\ run = 1
    /\ pc = "exit"
    /\ decoded # <<>>
    /\ first' = [trials |-> trials, stage |-> stage,
                 held |-> successful_buffer]
    /\ run' = 2
    /\ pc' = "A"
    /\ stage' = "A"
    /\ final_frames' = decoded
    /\ CAP_FRAMES_SiZE' = Len(decoded)
    /\ FRAME_PIVOT' = Len(decoded) \div 2
    /\ final_quality' = quality
    /\ successful_buffer' = NoBuffer
    /\ current_size' = 0
    /\ webp_file' = NoBuffer
    /\ outcome' = "pending"
    /\ api_result' = "pending"
    /\ trials' = <<>>
    /\ calls' = 0
    /\ target_range' = SIZE_TARGET_RANGE
    /\ frames_arg' = <<>>
    /\ low' = 0
    /\ high' = 0
    /\ best_value' = None
    /\ best_size' = Inf
    /\ sp' = "idle"
    /\ ret_value' = None
    /\ ret_size' = None
    /\ UNCHANGED <<quality, total_frames, decoded, deterministic, enc>>
    /\ UNCHANGED <<aloneVars, selVars>>

NextTwice == Next \/ ConvertAgain

TwiceSpec == InitTwice /\ [][NextTwice]_vars

(***************************************************************************)
(* Properties of the search alone (SearchSpec).                            *)
(***************************************************************************)
SearchReturned == pc = "search" /\ sp = "returned"

\* evaluate never decreases as the search value grows
Monotone(f) ==
    \A v \in DOMAIN f : \A w \in DOMAIN f : v <= w => f[v] <= f[w]

\* C1: whenever _binary_search returns a pair (value, size) rather than
\* (None, None), size is what evaluate measured at value and size is at most
\* target_range's max; for any range, space and evaluate.
C1_ReturnedSizeUnderCap ==
    (SearchReturned /\ ret_value # None) =>
        /\ ret_value \in DOMAIN evalf
        /\ ret_size = evalf[ret_value]
        /\ ret_size <= target_range[2]

\* C1 witness: an under-window value is returned after the loop, although an
\* evaluation before it was over the cap
C1_Witness ==
    /\ SearchReturned
    /\ ret_value # None
    /\ ret_size < target_range[1]
    /\ \E i \in 1..Len(evals) : evalf[evals[i]] > target_range[2]

\* C2: with a monotone evaluate and 1 <= low <= high, the search returns a
\* value with an in-window size whenever the space has one, and returns
\* (None, None) only when every size in the space is over the cap.
C2_MonotoneSearchCorrect ==
    (SearchReturned /\ Monotone(evalf) /\ 1 <= space[1] /\ space[1] <= space[2])
    =>
        /\ (\E v \in space[1]..space[2] :
                target_range[1] <= evalf[v] /\ evalf[v] <= target_range[2])
           => /\ ret_value \in space[1]..space[2]
              /\ ret_size = evalf[ret_value]
              /\ target_range[1] <= ret_size
              /\ ret_size <= target_range[2]
        /\ ret_value = None
           => \A v \in space[1]..space[2] : evalf[v] > target_range[2]

\* C2 witness: a monotone evaluate that is under the window at the first
\* midpoint, over the cap at the top of the space, and the in-window value
\* between them is the one returned
C2_Witness ==
    /\ SearchReturned
    /\ Monotone(evalf)
    /\ 1 <= space[1]
    /\ space[1] <= space[2]
    /\ ret_value # None
    /\ target_range[1] <= ret_size
    /\ ret_size <= target_range[2]
    /\ Len(evals) >= 2
    /\ evalf[evals[1]] < target_range[1]
    /\ evalf[space[2]] > target_range[2]

(***************************************************************************)
(* Properties of convert (Spec, FairSpec).                                 *)
(***************************************************************************)
TMax == SIZE_TARGET_RANGE[2]

\* the buffer a successful trial produced
BufferOf(t) ==
    [ok |-> TRUE, frames |-> t.frames, quality |-> t.quality, size |-> t.size]

OkTrials == {i \in 1..Len(trials) : trials[i].ok}
LastOk == CHOOSE i \in OkTrials : \A j \in OkTrials : j <= i
StageTrials(st) == {i \in 1..Len(trials) : trials[i].stage = st}
StageRank(st) ==
    CASE st = "A" -> 1 [] st = "B" -> 2 [] st = "C" -> 3 [] st = "D" -> 4
      [] st = "E" -> 5 [] st = "fallback" -> 6 [] OTHER -> 0

\* the run is not one in which frames were extracted and every encode trial
\* gave a buffer over the cap (a trial that the full log no longer records
\* and that is not over the cap leaves its buffer held)
C3_OutOfCase ==
    \/ outcome \in {"FileNotFoundError", "ValueError", "EncodeError"}
    \/ \E i \in 1..Len(trials) : ~(trials[i].ok /\ trials[i].size > TMax)
    \/ successful_buffer.ok /\ successful_buffer.size <= TMax

\* the save step is reached from the last resort, with a held buffer, after
\* trials of the stages A, B, C, D, E and the last resort, in that order
C3_SavedByFallback ==
    /\ pc = "save"
    /\ stage = "fallback"
    /\ successful_buffer.ok
    /\ \A st \in {"A", "B", "C", "D", "E", "fallback"} : StageTrials(st) # {}
    /\ \A i \in 1..Len(trials) : \A j \in 1..Len(trials) :
          i <= j => StageRank(trials[i].stage) <= StageRank(trials[j].stage)

\* C3: for every non-empty extracted frame list and every quality in 1..100,
\* if every encode trial is over the cap then convert goes through the stages
\* A to E in order, then the last resort, and reaches the save step with a
\* held buffer: it neither raises nor loops for ever.
C3_AllOverReachesSave == <>(C3_OutOfCase \/ C3_SavedByFallback)

\* C3, for what the code does: the same with at least two frames and a quality
\* of at least 2
C3_AllOverReachesSaveFrom2 ==
    <>(C3_OutOfCase \/ C3_SavedByFallback
         \/ CAP_FRAMES_SiZE = 1 \/ quality = 1)

\* C4: when convert stops in one of the stages A to E because the stage gave a
\* result (value, size), the buffer written is the one the trial at that value
\* produced: its size is the returned size and is at most the cap.
C4_WrittenIsResult ==
    (pc = "returned" /\ stage \in {"A", "B", "C", "D", "E"}) =>
        IF stage = "A"
        THEN /\ webp_file = _create_webp_buffer(final_frames, final_quality,
                                                current_size)
             /\ current_size <= TMax
        ELSE /\ webp_file =
                  _create_webp_buffer(
                      FramesToTest(stage, frames_arg, ret_value),
                      QualityToTest(stage, ret_value), ret_size)
             /\ ret_size <= TMax

\* C5 as claimed: once any trial (Stage A included) has succeeded, the held
\* buffer is the buffer of the most recent successful trial.
C5_HeldIsLastSuccess ==
    (Len(trials) < MaxTrials /\ OkTrials # {}) =>
        successful_buffer = BufferOf(trials[LastOk])

\* C5 as amended: once a trial has succeeded, the held buffer is the buffer of
\* the most recent successful trial, except that a Stage A buffer over the cap
\* is not held (nothing is held until the next successful trial); and at the
\* save step a buffer is held whenever Stage A's encode succeeded.
C5_HeldIsLastSuccessButOverA ==
    /\ (Len(trials) < MaxTrials /\ OkTrials # {}) =>
          successful_buffer =
              IF trials[LastOk].stage = "A" /\ trials[LastOk].size > TMax
              THEN NoBuffer
              ELSE BufferOf(trials[LastOk])
    /\ (pc = "save" /\ trials # <<>> /\ trials[1].ok) => successful_buffer.ok

\* C5 witness: Stage A's buffer was over the cap, and a later trial's buffer,
\* over the cap too, is the one held at the save step
C5_Witness ==
    /\ pc = "save"
    /\ stage \in SearchStages
    /\ Len(trials) < MaxTrials
    /\ trials[1].ok
    /\ trials[1].size > TMax
    /\ successful_buffer.ok
    /\ successful_buffer.size > TMax
    /\ successful_buffer = BufferOf(trials[LastOk])

\* C6: when Stage E's search returns nothing, convert makes exactly one more
\* trial, of one frame at quality 1, holds its buffer whatever its size,
\* writes that buffer and returns True.
C6_FallbackHeldAndWritten ==
    /\ pc = "fallback" =>
          /\ ret_value = None
          /\ StageTrials("E") # {}
          /\ StageTrials("fallback") = {}
    /\ (stage = "E" /\ pc \in {"save", "returned"}) => ret_value # None
    /\ (stage = "fallback" /\ pc # "fallback") =>
          /\ Cardinality(StageTrials("fallback")) = 1
          /\ \A i \in StageTrials("fallback") :
                /\ i = Len(trials)
                /\ Len(trials[i].frames) = 1
                /\ trials[i].quality = 1
                /\ trials[i].ok =>
                      /\ successful_buffer = BufferOf(trials[i])
                      /\ outcome \in {"pending", "True", "IOError: write"}
                      /\ pc = "returned" =>
                            webp_file = BufferOf(trials[i]) /\ outcome = "True"
                      /\ (pc = "exit" /\ outcome = "True") =>
                            /\ webp_file = BufferOf(trials[i])
                            /\ api_result = "True"

\* C6 witness: the last resort's buffer is over the cap, was written, and the
\* conversion returned True
C6_Witness ==
    /\ pc = "exit"
    /\ stage = "fallback"
    /\ api_result = "True"
    /\ webp_file.ok
    /\ webp_file.size > TMax
    /\ webp_file.quality = 1

\* C7: a failed encode trial is absorbed (its size counts as infinite and the
\* search goes on): no failed trial ends convert.
C7_FailureAbsorbed ==
    (\E i \in 1..Len(trials) : ~trials[i].ok) =>
        /\ pc \notin {"raised", "exit"}
        /\ outcome # "EncodeError"

\* C8: if every encode trial of the stages A to E fails, the last resort is
\* still tried; if it fails too, nothing is held, nothing is written and the
\* conversion ends with an error (convert_video_to_webp returns False).
C8_AllFailStillTriesFallback ==
    (pc \in {"raised", "exit"} /\ trials # <<>> /\ OkTrials = {}) =>
        /\ StageTrials("fallback") # {}
        /\ successful_buffer = NoBuffer
        /\ webp_file = NoBuffer
        /\ pc = "exit" => api_result = "False"

\* C9: if the extracted frame list is empty, convert raises before Stage A: no
\* trial is made, no stage is entered and nothing is written.
C9_EmptyInputRaisesFirst ==
    (total_frames # None /\ decoded = <<>>) =>
        /\ pc \in {"raised", "exit"}
        /\ outcome = "ValueError"
        /\ stage = "none"
        /\ trials = <<>>
        /\ calls = 0
        /\ successful_buffer = NoBuffer
        /\ webp_file = NoBuffer
        /\ pc = "exit" => api_result = "False"

\* C9 witness: a stream of no frames was decoded and the conversion failed
C9_Witness ==
    /\ total_frames = 0
    /\ decoded = <<>>
    /\ pc = "exit"
    /\ api_result = "False"

(***************************************************************************)
(* Properties of the sampler alone (SelectSpec).                           *)
(***************************************************************************)
\* C10: for a frame list of length >= 1, select is empty for a count <= 0,
\* is the first frame alone for a count of 1, and is the list itself for a
\* count >= its length; for select_frames and, on indices, _select_indices.
C10_SelectBoundaries ==
    /\ (pc = "select_frames" /\ Len(sel_seq) >= 1) =>
          /\ sel_count <= 0 => sel_out = <<>>
          /\ sel_count = 1 => sel_out = <<sel_seq[1]>>
          /\ sel_count >= Len(sel_seq) => sel_out = sel_seq
    /\ (pc = "_select_indices" /\ Len(sel_seq) >= 1) =>
          /\ sel_count <= 0 => sel_out = <<>>
          /\ sel_count = 1 => sel_out = <<0>>
          /\ sel_count >= Len(sel_seq) =>
                sel_out = [k \in 1..Len(sel_seq) |-> k - 1]

\* C10 witness: one frame is selected from a list whose middle and last
\* frames differ from its first
C10_Witness ==
    /\ pc = "select_frames"
    /\ Len(sel_seq) >= 3
    /\ sel_count = 1
    /\ sel_seq[1] # sel_seq[2]
    /\ sel_out = <<sel_seq[1]>>

\* C11: for a list of n frames and a count c with 2 <= c < n, select returns
\* exactly c elements, the i-th (from 0) being the frame at index
\* floor(i * (n - 1) / (c - 1)); index 0 and index n - 1 are both selected.
C11_SelectEvenlySpaced ==
    (pc \in {"select_frames", "_select_indices"}
        /\ 2 <= sel_count /\ sel_count < Len(sel_seq)) =>
        /\ Len(sel_out) = sel_count
        /\ \A i \in 0..(sel_count - 1) :
              sel_out[i + 1] =
                  IF pc = "select_frames"
                  THEN sel_seq[(i * (Len(sel_seq) - 1)) \div (sel_count - 1) + 1]
                  ELSE (i * (Len(sel_seq) - 1)) \div (sel_count - 1)
        /\ pc = "select_frames" =>
              /\ sel_out[1] = sel_seq[1]
              /\ sel_out[sel_count] = sel_seq[Len(sel_seq)]
        /\ pc = "_select_indices" =>
              /\ sel_out[1] = 0
              /\ sel_out[sel_count] = Len(sel_seq) - 1

\* C11 witness: 3 of 5 indices are selected: 0, 2 and 4
C11_Witness ==
    /\ pc = "_select_indices"
    /\ Len(sel_seq) = 5
    /\ sel_count = 3
    /\ sel_out = <<0, 2, 4>>

\* C11 witness on frames: 3 of 4 frames, the second differing from the third
C11_WitnessFrames ==
    /\ pc = "select_frames"
    /\ Len(sel_seq) = 4
    /\ sel_count = 3
    /\ sel_seq[2] # sel_seq[3]
    /\ sel_out = <<sel_seq[1], sel_seq[2], sel_seq[4]>>

C13_TrialsSelectFromExtracted ==
    \A i \in 1..Len(trials) :
        trials[i].frames = select_frames(decoded, Len(trials[i].frames))

\* C14: convert_video_to_webp never raises to its caller: what it hands back
\* is True or False; it is True exactly when convert completed and wrote the
\* output, and False for every error outcome of convert (missing input file,
\* extraction failure or empty frames, an encode that raised, no buffer
\* produced, write failure).
C14_NeverRaisesTrueIffWritten ==
    pc = "exit" =>
        /\ api_result \in {"True", "False"}
        /\ api_result = "True" <=> (outcome = "True" /\ webp_file.ok)
        /\ outcome \in {"FileNotFoundError", "ValueError", "EncodeError",
                        "IOError: write", "IOError: no buffer"}
               => (api_result = "False" /\ ~webp_file.ok)

\* the write of a held buffer failed and the caller got False
C14_Witness ==
    /\ pc = "exit"
    /\ outcome = "IOError: write"
    /\ successful_buffer.ok
    /\ api_result = "False"

\* C15: in every run of convert the stages that perform trials form a prefix
\* of A, B, C, D, E, fallback, in that order; a stage performs trials only
\* after every trial of every earlier stage was over targetRange.max (the
\* earlier stage ended without a result), Stage A performs one trial, and a
\* trial whose size is in the window is the last trial of the run.
C15_StagesInOrder ==
    /\ \A i \in 1..Len(trials) :
          /\ \A j \in 1..Len(trials) :
                i < j => /\ StageRank(trials[i].stage) <= StageRank(trials[j].stage)
                         /\ trials[i].stage # trials[j].stage =>
                                (trials[i].ok /\ trials[i].size > TMax)
                         /\ ~InWindow(trials[i].size, SIZE_TARGET_RANGE)
                         /\ trials[j].stage # "A"
          /\ \A r \in 1..(StageRank(trials[i].stage) - 1) :
                \E j \in 1..(i - 1) : StageRank(trials[j].stage) = r
    /\ stage # "none" =>
          \A i \in 1..Len(trials) :
              StageRank(trials[i].stage) <= StageRank(stage)

\* Stage A over budget, the Stage B trial at 22 of 30 frames in the window:
\* the run ends with 22 frames at the requested quality
C15_Witness ==
    /\ pc = "exit"
    /\ Len(decoded) = 30
    /\ Len(trials) = 2
    /\ trials[1].stage = "A" /\ trials[1].size > TMax
    /\ trials[2].stage = "B" /\ Len(trials[2].frames) = 22
    /\ InWindow(trials[2].size, SIZE_TARGET_RANGE)
    /\ webp_file = BufferOf(trials[2])
    /\ webp_file.quality = quality

(***************************************************************************)
(* Properties of the search alone (SearchSpec), continued.                 *)
(***************************************************************************)
\* C16: in _binary_search the first evaluation whose size is in the window
\* (min <= size <= max) ends the search: it is the last evaluation of the
\* search, and the search has returned (mid, size) of that evaluation, even
\* if an under-min candidate was recorded before.
C16_FirstInWindowEnds ==
    pc = "search" =>
        \A i \in 1..Len(evals) :
            (target_range[1] <= evalf[evals[i]]
                /\ evalf[evals[i]] <= target_range[2]) =>
                /\ i = Len(evals)
                /\ sp = "returned"
                /\ ret_value = evals[i]
                /\ ret_size = evalf[evals[i]]

\* an under-min candidate was recorded, then an evaluation in the window
\* ended the search although values above it were left
C16_Witness ==
    /\ pc = "search"
    /\ sp = "returned"
    /\ Len(evals) >= 2
    /\ best_value # None
    /\ UnderWindow(evalf[evals[1]], target_range)
    /\ target_range[1] <= evalf[evals[Len(evals)]]
    /\ evalf[evals[Len(evals)]] <= target_range[2]
    /\ ret_value = evals[Len(evals)]
    /\ ret_value < high

(***************************************************************************)
(* Properties of convert (Spec), continued.                                *)
(***************************************************************************)
\* C17: Stage B is entered if and only if the Stage A trial's size is greater
\* than targetRange.max or the Stage A trial failed; a Stage A size that is
\* <= targetRange.max (one below targetRange.min included) is accepted as the
\* final result after that single trial, with no search.
C17_StageBIffAOverOrFailed ==
    Len(trials) >= 1 =>
        /\ StageRank(stage) >= 2 <=>
               (~trials[1].ok \/ trials[1].size > TMax)
        /\ (trials[1].ok /\ trials[1].size <= TMax) =>
               /\ Len(trials) = 1
               /\ sp = "idle"
               /\ successful_buffer = BufferOf(trials[1])
               /\ pc \in {"save", "returned", "raised", "exit"}

\* the same for the runs whose Stage A encode gave a buffer
C17_StageBIffAOver ==
    (Len(trials) >= 1 /\ trials[1].ok) => C17_StageBIffAOverOrFailed

\* C18: with n extracted frames (1 <= n <= 30) and requested quality q
\* (1 <= q <= 100), every encode trial of every stage uses a frame count in
\* [1, n] and a quality in [1, q], within the stage's range computed with
\* cap = n: A: n frames at q; B: frames in [n/2, n] at q; C: n/2 frames,
\* quality in [q/2, q]; D: quality q/2, frames in [1, n/2]; E: 1 frame,
\* quality in [1, q/2]. No trial has 0 frames or quality 0.
C18_TrialsWithinStageRanges ==
    \A i \in 1..Len(trials) :
        LET t == trials[i]
            k == Len(t.frames)
            n == Len(decoded)
        IN
        /\ 1 <= n /\ n <= 30
        /\ 1 <= k /\ k <= n
        /\ 1 <= t.quality /\ t.quality <= quality
        /\ t.stage = "A" => (k = n /\ t.quality = quality)
        /\ t.stage = "B" =>
              (n \div 2 <= k /\ k <= n /\ t.quality = quality)
        /\ t.stage = "C" =>
              (k = n \div 2 /\ quality \div 2 <= t.quality
                  /\ t.quality <= quality)
        /\ t.stage = "D" =>
              (t.quality = quality \div 2 /\ 1 <= k /\ k <= n \div 2)
        /\ t.stage = "E" =>
              (k = 1 /\ 1 <= t.quality /\ t.quality <= quality \div 2)

\* requested quality 1: Stage C's range starts at quality 0 and its trial
\* is made at quality 1
C18_Witness ==
    /\ quality = 1
    /\ Len(decoded) = 3
    /\ \E i \in 1..Len(trials) :
          /\ trials[i].stage = "C"
          /\ trials[i].quality = 1
          /\ Len(trials[i].frames) = 1
    /\ low = 0

(***************************************************************************)
(* Properties of the search alone (SearchSpec), continued.                 *)
(***************************************************************************)
\* the search over a space with 1 <= low <= high has returned an under-min
\* value or (None, None) although some value of the space has a size in the
\* window
ReturnedPastValid ==
    /\ SearchReturned
    /\ 1 <= space[1] /\ space[1] <= space[2]
    /\ (ret_value = None \/ ret_size < target_range[1])
    /\ \E v \in space[1]..space[2] :
          target_range[1] <= evalf[v] /\ evalf[v] <= target_range[2]

\* C19: with a non-monotonic evaluate the search can skip a valid value:
\* a search over a space with 1 <= low <= high can return an under-min value
\* or (None, None) although some value of the space has an in-window size;
\* when it does, the size function is not monotonic and no in-window value
\* was ever evaluated.
C19_SkipOnlyIfNonMonotone ==
    ReturnedPastValid =>
        /\ ~Monotone(evalf)
        /\ \A i \in 1..Len(evals) :
              ~(target_range[1] <= evalf[evals[i]]
                  /\ evalf[evals[i]] <= target_range[2])

\* space (1, 3): value 1 is in the window, 2 is under and 3 is over; the
\* search evaluates 2 and 3 and returns 2
C19_Witness ==
    /\ ReturnedPastValid
    /\ space = <<1, 3>>
    /\ target_range[1] <= evalf[1] /\ evalf[1] <= target_range[2]
    /\ evals = <<2, 3>>
    /\ ret_value = 2
    /\ ret_size < target_range[1]

\* C20: for every search space with 0 <= low <= high (low = 0 included,
\* where the midpoint is clamped from 0 to 1) and every evaluate function,
\* _binary_search makes at most high - low + 1 evaluations and never
\* evaluates the same value twice.
C20_EvaluationsBoundedDistinct ==
    (pc = "search" /\ space[1] <= space[2]) =>
        /\ Len(evals) <= space[2] - space[1] + 1
        /\ \A i \in 1..Len(evals) : \A j \in 1..Len(evals) :
              i # j => evals[i] # evals[j]

\* C20, last part: each loop iteration strictly shrinks the interval
\* [low, high] (or returns).
C20_IntervalShrinks ==
    [][(pc = "search" /\ sp = "loop" /\ sp' = "loop")
          => high' - low' < high - low]_vars

\* the positions of the evaluation log whose size was below the window's min
UnderEvals ==
    {i \in 1..Len(evals) : evalf[evals[i]] < target_range[1]}

\* C21: a call of _binary_search that has returned gave (None, None) if and
\* only if low > high or every size it evaluated was greater than
\* targetRange.max; if no evaluation was in the window but at least one was
\* below targetRange.min, it returned the largest evaluated value whose size
\* was below min, which is the last under-shoot recorded, with its size.
C21_NoneIffEmptyOrAllOver ==
    SearchReturned =>
        /\ (ret_value = None) <=> (ret_size = None)
        /\ (ret_value = None) <=>
               (\/ space[1] > space[2]
                \/ \A i \in 1..Len(evals) :
                      evalf[evals[i]] > target_range[2])
        /\ ((\A i \in 1..Len(evals) :
                  ~(target_range[1] <= evalf[evals[i]]
                      /\ evalf[evals[i]] <= target_range[2]))
              /\ UnderEvals # {}) =>
               /\ \A i \in UnderEvals : evals[i] <= ret_value
               /\ \E i \in UnderEvals :
                     /\ evals[i] = ret_value
                     /\ \A j \in UnderEvals : j <= i
               /\ ret_size = evalf[ret_value]

\* space (1, 5): 3 and 4 are under min, 5 is over max; 4 is returned
C21_Witness ==
    /\ SearchReturned
    /\ space = <<1, 5>>
    /\ evals = <<3, 4, 5>>
    /\ UnderEvals = {1, 2}
    /\ evalf[5] > target_range[2]
    /\ ret_value = 4
    /\ ret_size = evalf[4]

(***************************************************************************)
(* Properties of the sampler alone (SelectSpec), continued.                *)
(***************************************************************************)
\* C22: for every total n >= 1 and count c with 2 <= c < n the indices
\* returned by _select_indices(n, c) are strictly increasing and all lie in
\* [0, n - 1], so they are c distinct indices; the set built from them in
\* _extract_frames_from_video selects exactly c frames, and min(n, c) frames
\* for any c >= 1.
C22_IndicesIncreaseExtractExact ==
    LET n == Len(sel_seq)
        c == sel_count
    IN
    /\ (pc = "_select_indices" /\ n >= 1 /\ 2 <= c /\ c < n) =>
          /\ Len(sel_out) = c
          /\ \A k \in 1..Len(sel_out) : 0 <= sel_out[k] /\ sel_out[k] <= n - 1
          /\ \A k \in 1..(Len(sel_out) - 1) : sel_out[k] < sel_out[k + 1]
          /\ Cardinality({sel_out[k] : k \in 1..Len(sel_out)}) = c
    /\ (pc = "_extract_frames_from_video" /\ n >= 1 /\ c >= 1) =>
          /\ Len(sel_out) = (IF n < c THEN n ELSE c)
          /\ \A k \in 1..Len(sel_out) : 0 <= sel_out[k] /\ sel_out[k] <= n - 1
          /\ \A k \in 1..(Len(sel_out) - 1) : sel_out[k] < sel_out[k + 1]
          /\ (2 <= c /\ c < n) =>
                \A i \in 0..(c - 1) :
                    sel_out[i + 1] = (i * (n - 1)) \div (c - 1)

\* _select_indices(6, 4) = 0, 1, 3, 5
C22_Witness ==
    /\ pc = "_select_indices"
    /\ Len(sel_seq) = 6
    /\ sel_count = 4
    /\ sel_out = <<0, 1, 3, 5>>

\* the decode loop keeps the 4 frames at those positions of a 6-frame stream
C22_WitnessExtract ==
    /\ pc = "_extract_frames_from_video"
    /\ Len(sel_seq) = 6
    /\ sel_count = 4
    /\ sel_out = <<0, 1, 3, 5>>
====
